---- MODULE Spec2Model ----
(***************************************************************************)
(* Online training / collection loops of d3rlpy/online/iterators.py and    *)
(* the precondition checks of _FQEBase in d3rlpy/ope/fqe.py.               *)
(*                                                                         *)
(* train_single_env and collect are modelled as sequential processes: pc   *)
(* is the position in the function, the other variables are its locals,    *)
(* the two buffers, the algorithm object, and a record of the calls made   *)
(* on the collaborators (environment, algorithm, explorer, buffer, logger, *)
(* callback).                                                              *)
(***************************************************************************)
EXTENDS Integers, Sequences, FiniteSets, TLC

\* ---------------------------------------------------------------- bounds
MaxSteps == 3       \* largest n_steps explored
BufCap == 2         \* maxlen of the primary buffer handed to the loop
MaxDemoLen == 2     \* steps in a demonstration episode
MaxDemoEpisodes == 2 \* episodes in a demonstration file
MaxCalls == 2       \* calls made one after the other on the same algorithm
NFrames == 2        \* algo.n_frames
MaxGradStep == 3    \* largest grad_step of an FQE object

\* program constant: ReplayBuffer(1000000, env=env)
DemoBufferMaxlen == 1000000

None == "None"
TimeLimitKey == "TimeLimit.truncated"

VARIABLES
    cfg,              \* the arguments of the call (fixed during a run)
    pc,               \* position in train_single_env / collect
    total_step,       \* loop variable
    epoch,            \* pseudo epoch count (-1: not yet assigned)
    buffer,           \* primary buffer: sequence of transitions
    demo_buffer,      \* [bound, items]: the local demo_buffer
    action,           \* step at which the local `action` was assigned
    unscaled_action,  \* step at which `unscaled_action` was assigned, 0: unbound
    env_ret,          \* what env.step returned last: [terminal, info]
    clip_episode,     \* local clip_episode of the current step
    log,              \* calls made during the current iteration, in order
    calls,            \* number of calls made so far, per operation, and
                      \* of add_metric calls since the last logger.commit
    error,            \* None, or what raised out of the function
    algo,             \* the algorithm object: impl, scalers, calls made on it
    ncalls,           \* calls of train_single_env / collect started so far
    hist,             \* [on, cur, prev]: what the environment and the buffer
                      \* saw during this call and during the previous one
    observation,      \* local observation: [ep, k], step k of episode ep
    stacked_frame,    \* [bound, frames]: the local stacked_frame
    rollout_return,   \* local rollout_return
    reward,           \* local reward
    values,           \* values of the locals action and unscaled_action
    fqe               \* an _FQEBase object and the outcome of its last call

loopVars == <<cfg, pc, total_step, epoch, buffer, demo_buffer, action,
              unscaled_action, env_ret, clip_episode, log, calls, error,
              algo, ncalls, hist, observation, stacked_frame,
              rollout_return, reward, values>>

vars == <<cfg, pc, total_step, epoch, buffer, demo_buffer, action,
          unscaled_action, env_ret, clip_episode, log, calls, error,
          algo, ncalls, hist, observation, stacked_frame, rollout_return,
          reward, values, fqe>>

\* ------------------------------------------------------------- inputs
\* A demonstration file: a sequence of episodes, each the sequence of its
\* `done` flags (obs, act and rew are carried along unchanged).
DemoEpisodes ==
    { [i \in 1..MaxDemoLen |-> i = MaxDemoLen],
      [i \in 1..MaxDemoLen |-> FALSE] }

DemoFiles == { <<e>> : e \in DemoEpisodes }

\* every file of up to MaxDemoEpisodes episodes of 1..MaxDemoLen steps
AllDemoEpisodes == UNION { [1..n -> BOOLEAN] : n \in 1..MaxDemoLen }

AllDemoFiles ==
    UNION { [1..n -> AllDemoEpisodes] : n \in 1..MaxDemoEpisodes }

TrainConfigs ==
    [ mode : {"train"},
      n_steps : 1..MaxSteps,
      n_steps_per_epoch : {1, 2},
      update_interval : {1, 2},
      update_start_step : {0, 1},
      random_steps : {0, 2},
      explorer : BOOLEAN,
      eval_env : BOOLEAN,
      save_interval : {1, 2},
      timelimit_aware : BOOLEAN,
      callback : BOOLEAN,
      load_demo : {<<>>} \cup DemoFiles,
      bc_loss : BOOLEAN,
      batch_size : {0, 1},
      deterministic : {FALSE},
      is_image : {FALSE},
      rewards : {{0}},
      env : {"any"} ]

CollectConfigs ==
    [ mode : {"collect"},
      n_steps : 1..MaxSteps,
      n_steps_per_epoch : {1},
      update_interval : {1},
      update_start_step : {0},
      random_steps : {0},
      explorer : BOOLEAN,
      eval_env : {FALSE},
      save_interval : {1},
      timelimit_aware : BOOLEAN,
      callback : {FALSE},
      load_demo : {<<>>},
      bc_loss : {FALSE},
      batch_size : {1},
      deterministic : BOOLEAN,
      is_image : {FALSE},
      rewards : {{0}},
      env : {"any"} ]

Configs == TrainConfigs \cup CollectConfigs

\* what env.step can return: terminal flag and the keys of info
EnvReturns == [ terminal : BOOLEAN, info : {{}, {TimeLimitKey}} ]

\* a deterministic environment: what its i-th step returns
EnvScript(i) ==
    [ terminal |-> (i % 2 = 0), info |-> {} ]

\* what the i-th env.step of a call can return and the reward with it:
\* anything for env = "any", the scripted return for env = "script"
EnvReturnsAt(c, i) ==
    IF c.env = "any" THEN EnvReturns ELSE {EnvScript(i)}

EnvRewardsAt(c, i) ==
    IF c.env = "any" THEN c.rewards ELSE {i % 2}

NoCalls ==
    [ env_step |-> 0, env_reset |-> 0, append |-> 0, update |-> 0,
      callback |-> 0, clip_episode |-> 0, close |-> 0, commit |-> 0,
      uncommitted |-> 0 ]

Count(op) == [calls EXCEPT ![op] = @ + 1]

\* one entry of the per-iteration call log
Ev(op, args) == [op |-> op, args |-> args]

\* hist with the events evts added to the record of the current call
Rec(evts) == IF hist.on THEN [hist EXCEPT !.cur = @ \o evts] ELSE hist

\* ------------------------------------------------------- action space
\* env.action_space: Box(low, high)
ActionSpace == [low |-> 0, high |-> 2]

\* lines 75-85: native [low, high] -> [-1, 1] (the 1e-8 in the divisor is
\* below the resolution of the values used here)
scale_action(action_space, a) ==
    LET clipped == IF a < action_space.low THEN action_space.low
                   ELSE IF a > action_space.high THEN action_space.high
                   ELSE a
    IN  (2 * (clipped - action_space.low))
            \div (action_space.high - action_space.low) - 1

\* lines 88-97: [-1, 1] -> native [low, high]
unscale_action(action_space, scaled_action) ==
    action_space.low
      + ((scaled_action + 1) * (action_space.high - action_space.low)) \div 2

\* what the selectors return at step t: the policy and the explorer answer
\* in the normalized range, env.action_space.sample() in the native range
PolicyAction(t) == (t % 3) - 1
NativeSample(t) == t % 3

\* --------------------------------------------------------- the buffer
\* Buffer.append on a buffer of capacity cap: the oldest transition is
\* evicted when the buffer is full.
BufferAppend(buf, tr, cap) ==
    IF Len(buf) < cap THEN Append(buf, tr) ELSE Append(Tail(buf), tr)

\* ------------------------------------------------- StackedObservation
\* StackedObservation.append with n_frames = n: the oldest frame leaves a
\* full window
StackAppend(frames, frame, n) ==
    IF Len(frames) < n THEN Append(frames, frame)
    ELSE Append(Tail(frames), frame)

\* ------------------------------------------------------ demonstrations
\* DemoTransition with the episode boundary of a demonstration step dropped
DemoTransitionNoClip(done) == [terminal |-> done, clip_episode |-> FALSE]

\* the transition appended for a demonstration step with flag done
DemoTransition(done) == [terminal |-> done, clip_episode |-> done]

RECURSIVE AppendEpisode(_, _, _, _)
\* for i in range(demo_steps): buffer.append(...)
AppendEpisode(buf, demo, i, cap) ==
    IF i > Len(demo) THEN buf
    ELSE AppendEpisode(BufferAppend(buf, DemoTransition(demo[i]), cap),
                       demo, i + 1, cap)

RECURSIVE AppendDemos(_, _, _, _)
\* for demo in demos: ...
AppendDemos(buf, demos, k, cap) ==
    IF k > Len(demos) THEN buf
    ELSE AppendDemos(AppendEpisode(buf, demos[k], 1, cap), demos, k + 1, cap)

RECURSIVE DemoAppendCalls(_, _, _, _)
\* the append calls of lines 227-247, in order: episode k from step i on
DemoAppendCalls(target, demos, k, i) ==
    IF k > Len(demos) THEN <<>>
    ELSE IF i > Len(demos[k]) THEN DemoAppendCalls(target, demos, k + 1, 1)
    ELSE <<Ev(target, <<DemoTransition(demos[k][i]).terminal,
                        DemoTransition(demos[k][i]).clip_episode>>)>>
         \o DemoAppendCalls(target, demos, k, i + 1)

\* DemoTarget with the two branches of `if bc_loss` exchanged
DemoTargetSwapped(bc_loss) ==
    IF bc_loss THEN "buffer.append" ELSE "demo_buffer.append"

\* lines 223-247: the buffer the demonstrations are appended to
DemoTarget(bc_loss) ==
    IF bc_loss THEN "demo_buffer.append" ELSE "buffer.append"

\* ---------------------------------------------------------- the algorithm
\* an algorithm object as the caller hands it over
AlgoStates ==
    [ impl : BOOLEAN, scaler : BOOLEAN, action_scaler : BOOLEAN,
      scaler_fit : {FALSE}, action_scaler_fit : {FALSE},
      builds : {0}, scaler_fits : {0}, action_scaler_fits : {0} ]

FreshAlgo ==
    [ impl |-> FALSE, scaler |-> FALSE, action_scaler |-> FALSE,
      scaler_fit |-> FALSE, action_scaler_fit |-> FALSE,
      builds |-> 0, scaler_fits |-> 0, action_scaler_fits |-> 0 ]

\* NeedsBuild with the test of algo.impl dropped
NeedsBuildAlways(a) == TRUE

\* line 113: if algo.impl is None
NeedsBuild(a) == ~a.impl

\* lines 98-118: _setup_algo
SetupAlgo(a) ==
    [ a EXCEPT
        !.scaler_fit = @ \/ a.scaler,
        !.scaler_fits = IF a.scaler THEN @ + 1 ELSE @,
        !.action_scaler_fit = @ \/ a.action_scaler,
        !.action_scaler_fits = IF a.action_scaler THEN @ + 1 ELSE @,
        !.impl = @ \/ NeedsBuild(a),
        !.builds = IF NeedsBuild(a) THEN @ + 1 ELSE @ ]

\* the calls _setup_algo makes, in order
SetupAlgoCalls(a) ==
    ( IF a.scaler THEN <<Ev("scaler.fit_with_env", <<>>)>> ELSE <<>> ) \o
    ( IF a.action_scaler
      THEN <<Ev("action_scaler.fit_with_env", <<>>)>> ELSE <<>> ) \o
    ( IF NeedsBuild(a) THEN <<Ev("algo.build_with_env", <<>>)>>
      ELSE <<Ev("LOG.warning", <<>>)>> )

\* ------------------------------------------------------------ _FQEBase
\* an _FQEBase object: whether algo was given and impl built, its
\* grad_step and target_update_interval, whether the batch carries a
\* numpy_batch; and the last method called, what it called, how it ended
FqeStates ==
    [ algo : BOOLEAN, impl : BOOLEAN, grad_step : 0..MaxGradStep,
      target_update_interval : {1, 2}, numpy_batch : BOOLEAN,
      op : {None}, made : {<<>>}, result : {None} ]

NoFqe ==
    [ algo |-> TRUE, impl |-> TRUE, grad_step |-> 0,
      target_update_interval |-> 1, numpy_batch |-> TRUE,
      op |-> None, made |-> <<>>, result |-> None ]

\* the locals of a call before its first statement
Locals ==
    /\ pc = "setup"
    /\ total_step = 0
    /\ epoch = -1
    /\ demo_buffer = [bound |-> FALSE, items |-> <<>>]
    /\ action = 0
    /\ unscaled_action = 0
    /\ env_ret = [terminal |-> FALSE, info |-> {}]
    /\ clip_episode = FALSE
    /\ log = <<>>
    /\ calls = NoCalls
    /\ error = None
    /\ observation = [ep |-> 0, k |-> 0]
    /\ stacked_frame = [bound |-> FALSE, frames |-> <<>>]
    /\ rollout_return = 0
    /\ reward = 0
    /\ values = [action |-> 0, unscaled_action |-> 0]

\* the state at the call, for a call whose arguments are drawn from C
InitWith(C) ==
    /\ cfg \in C
    /\ Locals
    /\ buffer = <<>>
    /\ algo = FreshAlgo
    /\ ncalls = 1
    /\ hist = [on |-> FALSE, cur |-> <<>>, prev |-> <<>>, prev_cfg |-> None,
               prev_error |-> None]
    /\ fqe = NoFqe

Init == InitWith(Configs)

\* ------------------------------------------------- train_single_env
\* lines 183-276: logger, _setup_algo, stacked observation, evaluation
\* scorer, demonstrations
Setup ==
    /\ pc = "setup"
    /\ cfg.mode = "train"
    /\ algo' = SetupAlgo(algo)
    /\ stacked_frame' = [bound |-> cfg.is_image, frames |-> <<>>]
    /\ IF cfg.load_demo # <<>>
       THEN IF DemoTarget(cfg.bc_loss) = "demo_buffer.append"
            THEN /\ demo_buffer' =
                        [bound |-> TRUE,
                         items |-> AppendDemos(<<>>, cfg.load_demo, 1,
                                               DemoBufferMaxlen)]
                 /\ buffer' = buffer
            ELSE /\ buffer' = AppendDemos(buffer, cfg.load_demo, 1, BufCap)
                 /\ demo_buffer' = demo_buffer
       ELSE UNCHANGED <<buffer, demo_buffer>>
    /\ log' = SetupAlgoCalls(algo) \o
              DemoAppendCalls(DemoTarget(cfg.bc_loss), cfg.load_demo, 1, 1)
    /\ pc' = "reset"
    /\ UNCHANGED <<cfg, total_step, epoch, action, unscaled_action, env_ret,
                   clip_episode, calls, error, ncalls, hist, observation,
                   rollout_return, reward, values, fqe>>

\* the function stops with exception e propagating to the caller
Raise(e) ==
    /\ pc' = "raised"
    /\ error' = e

\* for total_step in xrange(1, n_steps + 1): the position after step t
LoopPc(t, n_steps) == IF t < n_steps THEN "select" ELSE "finish"

\* lines 278-279: observation = env.reset(); rollout_return = 0.0
Reset ==
    /\ pc = "reset"
    /\ calls' = Count("env_reset")
    /\ log' = <<Ev("env.reset", <<>>)>>
    /\ observation' = [ep |-> 1, k |-> 0]
    /\ rollout_return' = 0
    /\ hist' = Rec(<<Ev("env.reset", <<>>)>>)
    /\ pc' = LoopPc(0, cfg.n_steps)
    /\ UNCHANGED <<cfg, total_step, epoch, buffer, demo_buffer, action,
                   unscaled_action, env_ret, clip_episode, error, algo,
                   ncalls, stacked_frame, reward, values, fqe>>

ResetRaises ==
    /\ pc = "reset"
    /\ Raise("env.reset")
    /\ UNCHANGED <<cfg, total_step, epoch, buffer, demo_buffer, action,
                   unscaled_action, env_ret, clip_episode, log, calls, algo,
                   ncalls, hist, observation, stacked_frame, rollout_return,
                   reward, values, fqe>>

\* SelectMode with the random phase one step longer (<= for <)
SelectModeOffByOne(t, random_steps, explorer) ==
    IF t <= random_steps THEN "env.action_space.sample"
    ELSE IF explorer THEN "explorer.sample"
    ELSE "algo.sample_action"

\* lines 293-305: which selector produces the action of step t
SelectMode(t, random_steps, explorer) ==
    IF t < random_steps THEN "env.action_space.sample"
    ELSE IF explorer THEN "explorer.sample"
    ELSE "algo.sample_action"

\* lines 283-285, 456-458: stacked_frame.append(observation) if is_image
Stacked ==
    IF stacked_frame.bound
    THEN [stacked_frame EXCEPT
            !.frames = StackAppend(@, observation, NFrames)]
    ELSE stacked_frame

\* SelectedValues with the explorer branch converting its action as the
\* policy branch does
SelectedValuesExplorerUnscaled(m, t, old) ==
    IF m = "env.action_space.sample"
    THEN [ action |-> scale_action(ActionSpace, NativeSample(t)),
           unscaled_action |-> NativeSample(t) ]
    ELSE [ action |-> PolicyAction(t),
           unscaled_action |-> unscale_action(ActionSpace, PolicyAction(t)) ]

\* lines 293-311: the values of action and unscaled_action after the
\* selection of step t by selector m, from their values before it
SelectedValues(m, t, old) ==
    IF m = "env.action_space.sample"
    THEN [ action |-> scale_action(ActionSpace, NativeSample(t)),
           unscaled_action |-> NativeSample(t) ]
    ELSE IF m = "explorer.sample"
    THEN [ action |-> PolicyAction(t),
           unscaled_action |-> old.unscaled_action ]
    ELSE [ action |-> PolicyAction(t),
           unscaled_action |-> unscale_action(ActionSpace, PolicyAction(t)) ]

\* lines 280-311: loop header, fed observation, action selection
Select ==
    /\ pc = "select"
    /\ cfg.mode = "train"
    /\ LET t == total_step + 1
           m == SelectMode(t, cfg.random_steps, cfg.explorer)
       IN  /\ total_step' = t
           /\ action' = t
           /\ unscaled_action' =
                  IF m = "explorer.sample" THEN unscaled_action ELSE t
           /\ values' = SelectedValues(m, t, values)
           /\ log' = <<Ev(m, <<t>>)>> \o
                  ( IF m = "env.action_space.sample"
                    THEN <<Ev("scale_action", <<t>>)>>
                    ELSE IF m = "algo.sample_action"
                    THEN <<Ev("unscale_action", <<t>>)>>
                    ELSE <<>> )
    /\ stacked_frame' = Stacked
    /\ pc' = "env_step"
    /\ UNCHANGED <<cfg, epoch, buffer, demo_buffer, env_ret, clip_episode,
                   calls, error, algo, ncalls, hist, observation,
                   rollout_return, reward, fqe>>

\* explorer.sample or algo.sample_action raises
SelectRaises ==
    /\ pc = "select"
    /\ cfg.mode = "train"
    /\ LET t == total_step + 1
           m == SelectMode(t, cfg.random_steps, cfg.explorer)
       IN  /\ m # "env.action_space.sample"
           /\ total_step' = t
           /\ log' = <<Ev(m, <<t>>)>>
           /\ Raise(m)
    /\ stacked_frame' = Stacked
    /\ UNCHANGED <<cfg, epoch, buffer, demo_buffer, action, unscaled_action,
                   env_ret, clip_episode, calls, algo, ncalls, hist,
                   observation, rollout_return, reward, values, fqe>>

\* TimeLimit with the timelimit_aware flag ignored
TimeLimitAlways(terminal, info, timelimit_aware) ==
    IF TimeLimitKey \in info
    THEN [terminal |-> FALSE, clip_episode |-> TRUE]
    ELSE [terminal |-> terminal, clip_episode |-> terminal]

\* lines 318-322: terminal and clip_episode of the stored transition
TimeLimit(terminal, info, timelimit_aware) ==
    IF timelimit_aware /\ TimeLimitKey \in info
    THEN [terminal |-> FALSE, clip_episode |-> TRUE]
    ELSE [terminal |-> terminal, clip_episode |-> terminal]

\* what the environment and the buffer see of a step: env.step(a) and
\* buffer.append(observation, action, reward, terminal, clip_episode)
StepEvents(a, rew, tr) ==
    <<Ev("env.step", <<a>>),
      Ev("buffer.append",
         <<observation, values.action, rew, tr.terminal, tr.clip_episode>>)>>

\* Stored with the transition appended twice
StoredTwice(buf, tr) ==
    BufferAppend(BufferAppend(buf, tr, BufCap), tr, BufCap)

\* lines 324-330, 483-489: the primary buffer after the step's one
\* buffer.append
Stored(buf, tr) == BufferAppend(buf, tr, BufCap)

\* lines 313-330: env.step(unscaled_action), TimeLimit case, buffer.append
EnvStep ==
    /\ pc = "env_step"
    /\ cfg.mode = "train"
    /\ unscaled_action # 0
    /\ \E r \in EnvReturnsAt(cfg, calls.env_step + 1),
          rew \in EnvRewardsAt(cfg, calls.env_step + 1) :
          LET tr == TimeLimit(r.terminal, r.info, cfg.timelimit_aware)
          IN  /\ env_ret' = r
              /\ reward' = rew
              /\ rollout_return' = rollout_return + rew
              /\ clip_episode' = tr.clip_episode
              /\ buffer' = Stored(buffer, tr)
              /\ log' = log \o <<Ev("env.step", <<unscaled_action>>),
                                 Ev("buffer.append", <<action>>)>>
              /\ hist' = Rec(StepEvents(values.unscaled_action, rew, tr))
    /\ calls' = [calls EXCEPT !.env_step = @ + 1, !.append = @ + 1]
    /\ pc' = "boundary"
    /\ UNCHANGED <<cfg, total_step, epoch, demo_buffer, action,
                   unscaled_action, error, algo, ncalls, observation,
                   stacked_frame, values, fqe>>

\* line 315 reads unscaled_action, which no branch taken so far assigned
EnvStepUnbound ==
    /\ pc = "env_step"
    /\ cfg.mode = "train"
    /\ unscaled_action = 0
    /\ Raise("UnboundLocalError")
    /\ UNCHANGED <<cfg, total_step, epoch, buffer, demo_buffer, action,
                   unscaled_action, env_ret, clip_episode, log, calls, algo,
                   ncalls, hist, observation, stacked_frame, rollout_return,
                   reward, values, fqe>>

\* env.step raises
EnvStepRaises ==
    /\ pc = "env_step"
    /\ cfg.mode = "train"
    /\ unscaled_action # 0
    /\ log' = Append(log, Ev("env.step", <<unscaled_action>>))
    /\ Raise("env.step")
    /\ UNCHANGED <<cfg, total_step, epoch, buffer, demo_buffer, action,
                   unscaled_action, env_ret, clip_episode, calls, algo,
                   ncalls, hist, observation, stacked_frame, rollout_return,
                   reward, values, fqe>>

\* Clears with the test of clip_episode dropped
ClearsAlways(clip, sf) == sf.bound

\* lines 333, 339, 492, 496: if clip_episode: ... if is_image:
Clears(clip, sf) == clip /\ sf.bound

\* lines 339-340, 496-497: stacked_frame.clear() at an episode boundary
ClearOnClip(clip, sf) ==
    IF Clears(clip, sf) THEN [sf EXCEPT !.frames = <<>>] ELSE sf

\* the call that goes with ClearOnClip
ClearCalls(clip, sf) ==
    IF Clears(clip, sf) THEN <<Ev("stacked_frame.clear", <<>>)>> ELSE <<>>

\* lines 333-341, 492-498: the observation the next step starts from
NextObservation(clip, obs) ==
    IF clip THEN [ep |-> obs.ep + 1, k |-> 0]
    ELSE [ep |-> obs.ep, k |-> obs.k + 1]

\* ReturnAfter with the accumulator kept across episode boundaries
ReturnAfterKept(clip, ret) == ret

\* line 337: rollout_return = 0.0 at an episode boundary
ReturnAfter(clip, ret) == IF clip THEN 0 ELSE ret

\* lines 332-341: reset if terminated
Boundary ==
    /\ pc = "boundary"
    /\ cfg.mode = "train"
    /\ IF clip_episode
       THEN /\ log' = log \o <<Ev("env.reset", <<>>),
                               Ev("add_metric",
                                  <<"rollout_return", rollout_return>>)>>
                          \o ClearCalls(clip_episode, stacked_frame)
            /\ calls' = [calls EXCEPT !.env_reset = @ + 1,
                                      !.uncommitted = @ + 1]
            /\ hist' = Rec(<<Ev("env.reset", <<>>)>> \o
                           ClearCalls(clip_episode, stacked_frame))
       ELSE /\ log' = log \o ClearCalls(clip_episode, stacked_frame)
            /\ UNCHANGED <<calls, hist>>
    /\ observation' = NextObservation(clip_episode, observation)
    /\ rollout_return' = ReturnAfter(clip_episode, rollout_return)
    /\ stacked_frame' = ClearOnClip(clip_episode, stacked_frame)
    /\ pc' = "update"
    /\ UNCHANGED <<cfg, total_step, epoch, buffer, demo_buffer, action,
                   unscaled_action, env_ret, clip_episode, error, algo,
                   ncalls, reward, values, fqe>>

\* line 334: env.reset raises
BoundaryRaises ==
    /\ pc = "boundary"
    /\ cfg.mode = "train"
    /\ clip_episode
    /\ log' = Append(log, Ev("env.reset", <<>>))
    /\ Raise("env.reset")
    /\ UNCHANGED <<cfg, total_step, epoch, buffer, demo_buffer, action,
                   unscaled_action, env_ret, clip_episode, calls, algo,
                   ncalls, hist, observation, stacked_frame, rollout_return,
                   reward, values, fqe>>

\* UpdateGate with the buffer-size test made non-strict
UpdateGateLenGeq(t, len, update_start_step, batch_size, update_interval) ==
    /\ t > update_start_step
    /\ len >= batch_size
    /\ t % update_interval = 0

\* UpdateGate with the start-step test made non-strict
UpdateGateStartGeq(t, len, update_start_step, batch_size, update_interval) ==
    /\ t >= update_start_step
    /\ len > batch_size
    /\ t % update_interval = 0

\* lines 345-346: the condition under which the update block is entered
UpdateGate(t, len, update_start_step, batch_size, update_interval) ==
    /\ t > update_start_step
    /\ len > batch_size
    /\ t % update_interval = 0

\* line 344
EpochOf(t, n_steps_per_epoch) == t \div n_steps_per_epoch

Gate ==
    UpdateGate(total_step, Len(buffer), cfg.update_start_step,
               cfg.batch_size, cfg.update_interval)

\* lines 347-381: the calls that build batch and demo_batch
SampleCalls(bc_loss) ==
    IF bc_loss
    THEN <<Ev("buffer.sample_trainsitions", <<>>),
           Ev("demo_buffer.sample_trainsitions", <<>>),
           Ev("buffer.to_minibatch", <<"buffer_t", "demo_t">>),
           Ev("demo_buffer.to_minibatch", <<"demo_t">>)>>
    ELSE <<Ev("buffer.sample", <<>>)>>

\* DemoBatchArg with the demo batch passed whatever the bc flag
DemoBatchArgAlways(bc_loss) == "demo_batch"

\* lines 350, 374, 376-385: the demo_batch argument of algo.update
DemoBatchArg(bc_loss) == IF bc_loss THEN "demo_batch" ELSE None

\* lines 343-389: pseudo epoch count, update on schedule, record metrics
Update ==
    /\ pc = "update"
    /\ cfg.mode = "train"
    /\ epoch' = EpochOf(total_step, cfg.n_steps_per_epoch)
    /\ IF Gate
       THEN /\ cfg.bc_loss => demo_buffer.bound
            /\ log' = log \o SampleCalls(cfg.bc_loss) \o
                      <<Ev("algo.update", <<DemoBatchArg(cfg.bc_loss)>>),
                        Ev("add_metric", <<"loss">>)>>
            /\ calls' = [calls EXCEPT !.update = @ + 1,
                                      !.uncommitted = @ + 1]
       ELSE UNCHANGED <<log, calls>>
    /\ pc' = "callback"
    /\ UNCHANGED <<cfg, total_step, buffer, demo_buffer, action,
                   unscaled_action, env_ret, clip_episode, error, algo,
                   ncalls, hist, observation, stacked_frame, rollout_return,
                   reward, values, fqe>>

\* line 357 reads demo_buffer, which lines 220-236 did not create
UpdateUnbound ==
    /\ pc = "update"
    /\ cfg.mode = "train"
    /\ epoch' = EpochOf(total_step, cfg.n_steps_per_epoch)
    /\ Gate
    /\ cfg.bc_loss
    /\ ~demo_buffer.bound
    /\ log' = Append(log, Ev("buffer.sample_trainsitions", <<>>))
    /\ Raise("UnboundLocalError")
    /\ UNCHANGED <<cfg, total_step, buffer, demo_buffer, action,
                   unscaled_action, env_ret, clip_episode, calls, algo,
                   ncalls, hist, observation, stacked_frame, rollout_return,
                   reward, values, fqe>>

\* line 385: algo.update raises
UpdateRaises ==
    /\ pc = "update"
    /\ cfg.mode = "train"
    /\ epoch' = EpochOf(total_step, cfg.n_steps_per_epoch)
    /\ Gate
    /\ cfg.bc_loss => demo_buffer.bound
    /\ log' = log \o SampleCalls(cfg.bc_loss) \o
              <<Ev("algo.update", <<DemoBatchArg(cfg.bc_loss)>>)>>
    /\ Raise("algo.update")
    /\ UNCHANGED <<cfg, total_step, buffer, demo_buffer, action,
                   unscaled_action, env_ret, clip_episode, calls, algo,
                   ncalls, hist, observation, stacked_frame, rollout_return,
                   reward, values, fqe>>

\* CallbackCalls invoked only once an epoch has been completed
CallbackCallsAfterEpoch(callback, e, t) ==
    IF callback /\ e > 0 THEN <<Ev("callback", <<e, t>>)>> ELSE <<>>

\* lines 391-393: call callback if given
CallbackCalls(callback, e, t) ==
    IF callback THEN <<Ev("callback", <<e, t>>)>> ELSE <<>>

\* EpochEnd with the test on total_step dropped
EpochEndNoModulo(e, t, n_steps_per_epoch) == e > 0

\* line 395
EpochEnd(e, t, n_steps_per_epoch) == e > 0 /\ t % n_steps_per_epoch = 0

\* lines 395-404: evaluation, checkpoint and commit at the end of an epoch
EpochCalls(e, t, c) ==
    IF EpochEnd(e, t, c.n_steps_per_epoch)
    THEN ( IF c.eval_env
           THEN <<Ev("eval_scorer", <<>>), Ev("add_metric", <<"evaluation">>)>>
           ELSE <<>> ) \o
         ( IF e % c.save_interval = 0
           THEN <<Ev("logger.save_model", <<t>>)>>
           ELSE <<>> ) \o
         <<Ev("logger.commit", <<e, t>>)>>
    ELSE <<>>

\* lines 391-404: the tail of an iteration
EndOfStep ==
    /\ pc = "callback"
    /\ cfg.mode = "train"
    /\ log' = log \o CallbackCalls(cfg.callback, epoch, total_step)
                  \o EpochCalls(epoch, total_step, cfg)
    /\ calls' = [calls EXCEPT
                   !.callback = IF cfg.callback THEN @ + 1 ELSE @,
                   !.commit = IF EpochEnd(epoch, total_step,
                                          cfg.n_steps_per_epoch)
                              THEN @ + 1 ELSE @,
                   !.uncommitted = IF EpochEnd(epoch, total_step,
                                               cfg.n_steps_per_epoch)
                                   THEN 0 ELSE @]
    /\ pc' = LoopPc(total_step, cfg.n_steps)
    /\ UNCHANGED <<cfg, total_step, epoch, buffer, demo_buffer, action,
                   unscaled_action, env_ret, clip_episode, error, algo,
                   ncalls, hist, observation, stacked_frame, rollout_return,
                   reward, values, fqe>>

\* lines 406-410: clip the last episode, close logger
Finish ==
    /\ pc = "finish"
    /\ cfg.mode = "train"
    /\ log' = <<Ev("buffer.clip_episode", <<>>), Ev("logger.close", <<>>)>>
    /\ calls' = [calls EXCEPT !.clip_episode = @ + 1, !.close = @ + 1]
    /\ pc' = "done"
    /\ UNCHANGED <<cfg, total_step, epoch, buffer, demo_buffer, action,
                   unscaled_action, env_ret, clip_episode, error, algo,
                   ncalls, hist, observation, stacked_frame, rollout_return,
                   reward, values, fqe>>

\* ------------------------------------------------------------ collect
\* lines 438-449: _setup_algo, stacked observation
CollectSetup ==
    /\ pc = "setup"
    /\ cfg.mode = "collect"
    /\ algo' = SetupAlgo(algo)
    /\ stacked_frame' = [bound |-> cfg.is_image, frames |-> <<>>]
    /\ log' = SetupAlgoCalls(algo)
    /\ pc' = "reset"
    /\ UNCHANGED <<cfg, total_step, epoch, buffer, demo_buffer, action,
                   unscaled_action, env_ret, clip_episode, calls, error,
                   ncalls, hist, observation, rollout_return, reward,
                   values, fqe>>

\* lines 463-470: which selector produces the action in collect
CollectSelectMode(deterministic, explorer) ==
    IF deterministic THEN "algo.predict"
    ELSE IF explorer THEN "explorer.sample"
    ELSE "algo.sample_action"

\* lines 453-470
CollectSelect ==
    /\ pc = "select"
    /\ cfg.mode = "collect"
    /\ total_step' = total_step + 1
    /\ action' = total_step + 1
    /\ values' = [values EXCEPT !.action = PolicyAction(total_step + 1)]
    /\ log' = <<Ev(CollectSelectMode(cfg.deterministic, cfg.explorer),
                   <<total_step + 1>>)>>
    /\ stacked_frame' = Stacked
    /\ pc' = "env_step"
    /\ UNCHANGED <<cfg, epoch, buffer, demo_buffer, unscaled_action, env_ret,
                   clip_episode, calls, error, algo, ncalls, hist,
                   observation, rollout_return, reward, fqe>>

\* algo.predict, explorer.sample or algo.sample_action raises
CollectSelectRaises ==
    /\ pc = "select"
    /\ cfg.mode = "collect"
    /\ total_step' = total_step + 1
    /\ log' = <<Ev(CollectSelectMode(cfg.deterministic, cfg.explorer),
                   <<total_step + 1>>)>>
    /\ Raise(CollectSelectMode(cfg.deterministic, cfg.explorer))
    /\ stacked_frame' = Stacked
    /\ UNCHANGED <<cfg, epoch, buffer, demo_buffer, action, unscaled_action,
                   env_ret, clip_episode, calls, algo, ncalls, hist,
                   observation, rollout_return, reward, values, fqe>>

\* lines 473-489: env.step(action), TimeLimit case, buffer.append
CollectEnvStep ==
    /\ pc = "env_step"
    /\ cfg.mode = "collect"
    /\ \E r \in EnvReturnsAt(cfg, calls.env_step + 1),
          rew \in EnvRewardsAt(cfg, calls.env_step + 1) :
          LET tr == TimeLimit(r.terminal, r.info, cfg.timelimit_aware)
          IN  /\ env_ret' = r
              /\ reward' = rew
              /\ clip_episode' = tr.clip_episode
              /\ buffer' = Stored(buffer, tr)
              /\ log' = log \o <<Ev("env.step", <<action>>),
                                 Ev("buffer.append", <<action>>)>>
              /\ hist' = Rec(StepEvents(values.action, rew, tr))
    /\ calls' = [calls EXCEPT !.env_step = @ + 1, !.append = @ + 1]
    /\ pc' = "boundary"
    /\ UNCHANGED <<cfg, total_step, epoch, demo_buffer, action,
                   unscaled_action, error, algo, ncalls, observation,
                   stacked_frame, rollout_return, values, fqe>>

CollectEnvStepRaises ==
    /\ pc = "env_step"
    /\ cfg.mode = "collect"
    /\ log' = Append(log, Ev("env.step", <<action>>))
    /\ Raise("env.step")
    /\ UNCHANGED <<cfg, total_step, epoch, buffer, demo_buffer, action,
                   unscaled_action, env_ret, clip_episode, calls, algo,
                   ncalls, hist, observation, stacked_frame, rollout_return,
                   reward, values, fqe>>

\* lines 491-498: reset if terminated; end of the iteration
CollectBoundary ==
    /\ pc = "boundary"
    /\ cfg.mode = "collect"
    /\ IF clip_episode
       THEN /\ log' = Append(log, Ev("env.reset", <<>>))
                          \o ClearCalls(clip_episode, stacked_frame)
            /\ calls' = Count("env_reset")
            /\ hist' = Rec(<<Ev("env.reset", <<>>)>> \o
                           ClearCalls(clip_episode, stacked_frame))
       ELSE /\ log' = log \o ClearCalls(clip_episode, stacked_frame)
            /\ UNCHANGED <<calls, hist>>
    /\ observation' = NextObservation(clip_episode, observation)
    /\ stacked_frame' = ClearOnClip(clip_episode, stacked_frame)
    /\ pc' = LoopPc(total_step, cfg.n_steps)
    /\ UNCHANGED <<cfg, total_step, epoch, buffer, demo_buffer, action,
                   unscaled_action, env_ret, clip_episode, error, algo,
                   ncalls, rollout_return, reward, values, fqe>>

CollectBoundaryRaises ==
    /\ pc = "boundary"
    /\ cfg.mode = "collect"
    /\ clip_episode
    /\ log' = Append(log, Ev("env.reset", <<>>))
    /\ Raise("env.reset")
    /\ UNCHANGED <<cfg, total_step, epoch, buffer, demo_buffer, action,
                   unscaled_action, env_ret, clip_episode, calls, algo,
                   ncalls, hist, observation, stacked_frame, rollout_return,
                   reward, values, fqe>>

\* lines 500-501: clip the last episode
CollectFinish ==
    /\ pc = "finish"
    /\ cfg.mode = "collect"
    /\ log' = <<Ev("buffer.clip_episode", <<>>)>>
    /\ calls' = Count("clip_episode")
    /\ pc' = "done"
    /\ UNCHANGED <<cfg, total_step, epoch, buffer, demo_buffer, action,
                   unscaled_action, env_ret, clip_episode, error, algo,
                   ncalls, hist, observation, stacked_frame, rollout_return,
                   reward, values, fqe>>

Next ==
    \/ Setup
    \/ Reset
    \/ ResetRaises
    \/ Select
    \/ SelectRaises
    \/ EnvStep
    \/ EnvStepUnbound
    \/ EnvStepRaises
    \/ Boundary
    \/ BoundaryRaises
    \/ Update
    \/ UpdateUnbound
    \/ UpdateRaises
    \/ EndOfStep
    \/ Finish
    \/ CollectSetup
    \/ CollectSelect
    \/ CollectSelectRaises
    \/ CollectEnvStep
    \/ CollectEnvStepRaises
    \/ CollectBoundary
    \/ CollectBoundaryRaises
    \/ CollectFinish

Spec == Init /\ [][Next]_vars


\* ------------------------------------------------------- Scenario A
\* random_steps=10, update_start_step=5, update_interval=1, batch_size=1,
\* n_steps=20; the other arguments are left open.
ScenarioAConfigs ==
    [ mode : {"train"},
      n_steps : {20},
      n_steps_per_epoch : {10},
      update_interval : {1},
      update_start_step : {5},
      random_steps : {10},
      explorer : BOOLEAN,
      eval_env : {TRUE},
      save_interval : {1},
      timelimit_aware : BOOLEAN,
      callback : {TRUE},
      load_demo : {<<>>} \cup DemoFiles,
      bc_loss : BOOLEAN,
      batch_size : {1},
      deterministic : {FALSE},
      is_image : {FALSE},
      rewards : {{0}},
      env : {"any"} ]

InitScenarioA == InitWith(ScenarioAConfigs)

\* train_single_env alone; with random_steps = 10 the first step assigns
\* unscaled_action, so EnvStepUnbound is never enabled and is left out.
NextScenarioA ==
    \/ Setup
    \/ Reset
    \/ ResetRaises
    \/ Select
    \/ SelectRaises
    \/ EnvStep
    \/ EnvStepRaises
    \/ Boundary
    \/ BoundaryRaises
    \/ Update
    \/ UpdateUnbound
    \/ UpdateRaises
    \/ EndOfStep
    \/ Finish

SpecScenarioA == InitScenarioA /\ [][NextScenarioA]_vars

\* ------------------------------------------------------- properties
Train == cfg.mode = "train"

\* the calls to op in the log of the current iteration
LogIndex(op) == { i \in 1..Len(log) : log[i].op = op }
Called(op) == LogIndex(op) # {}
TimesCalled(op) == Cardinality(LogIndex(op))

\* the iteration total_step has run to its end: log holds all its calls
StepEnded == total_step >= 1 /\ pc \in {"select", "finish"}

\* the iteration total_step is past its update block
PastUpdate == pc = "callback" \/ StepEnded

\* C1: at every step of train_single_env, algo.update is called (once) iff
\* total_step > update_start_step, len(buffer) > batch_size (length after the
\* step's append) and total_step % update_interval = 0; a buffer that is too
\* small skips the update without error and the step goes on.
C1_UpdateIffGate ==
    /\ [] ( (Train /\ PastUpdate) =>
              /\ TimesCalled("algo.update") <= 1
              /\ Called("algo.update") <=>
                    ( /\ total_step > cfg.update_start_step
                      /\ Len(buffer) > cfg.batch_size
                      /\ total_step % cfg.update_interval = 0 ) )
    /\ [][ (Train /\ pc = "update" /\ Len(buffer) <= cfg.batch_size) =>
              ( /\ pc' = "callback"
                /\ error' = None
                /\ calls'.update = calls.update ) ]_vars

C1_Witness ==
    /\ Train /\ StepEnded /\ total_step = 2
    /\ cfg.update_interval = 2 /\ cfg.batch_size = 1
    /\ cfg.update_start_step = 1
    /\ Called("algo.update")
    /\ calls.update = 1

\* C2 as stated: in Scenario A no algo.update call during steps 1..10 and at
\* least one by step 20.
C2_NoUpdateBeforeStep11 ==
    /\ total_step <= 10 => calls.update = 0
    /\ (StepEnded /\ total_step = 20) => calls.update >= 1

\* C2 (amended): in Scenario A no algo.update call during steps 1..5, and
\* one algo.update call at every step from 6 on that runs to its end, hence
\* 15 calls by the end of step 20.
C2_UpdatesFromStep6 ==
    /\ total_step <= 5 => calls.update = 0
    /\ (StepEnded /\ total_step >= 6) =>
          /\ TimesCalled("algo.update") = 1
          /\ calls.update = total_step - 5

C2_Witness ==
    /\ pc = "done" /\ total_step = 20 /\ calls.update = 15

C4_TerminalImpliesClip ==
    /\ \A i \in 1..Len(buffer) :
          buffer[i].terminal => buffer[i].clip_episode
    /\ \A i \in 1..Len(demo_buffer.items) :
          demo_buffer.items[i].terminal => demo_buffer.items[i].clip_episode

C4_Witness ==
    /\ demo_buffer.bound
    /\ \E i \in 1..Len(demo_buffer.items) : demo_buffer.items[i].terminal
    /\ pc = "boundary"
    /\ Len(buffer) = 2
    /\ buffer[1].terminal
    /\ buffer[2].clip_episode /\ ~buffer[2].terminal

Selectors ==
    {"env.action_space.sample", "explorer.sample", "algo.sample_action"}

\* C5: at every step of train_single_env exactly one selector is invoked:
\* the random one (followed by scale_action) iff total_step < random_steps,
\* otherwise the explorer iff one is configured, otherwise sample_action.
C5_OneSelectorByPriority ==
    ( Train /\ (pc \in {"env_step", "boundary", "update", "callback"}
                \/ StepEnded) ) =>
       LET used == IF total_step < cfg.random_steps
                   THEN "env.action_space.sample"
                   ELSE IF cfg.explorer THEN "explorer.sample"
                   ELSE "algo.sample_action"
       IN  /\ TimesCalled(used) = 1
           /\ log[1].op = used
           /\ \A m \in Selectors \ {used} : ~Called(m)
           /\ Called("scale_action") <=> used = "env.action_space.sample"
           /\ Called("scale_action") => log[2].op = "scale_action"

C5_Witness ==
    /\ Train /\ StepEnded /\ total_step = 2
    /\ cfg.random_steps = 2 /\ cfg.explorer
    /\ Called("explorer.sample")
    /\ unscaled_action = 1

EpochCallNames == {"eval_scorer", "logger.save_model", "logger.commit"}

\* C6: in train_single_env evaluation, checkpoint and commit happen only at
\* steps with total_step % n_steps_per_epoch = 0 and
\* epoch = total_step // n_steps_per_epoch > 0; at such a step evaluation
\* runs iff eval_env is given, logger.save_model iff
\* epoch % save_interval = 0, and logger.commit(epoch, total_step) exactly
\* once; none of the three runs at any other step.
C6_EpochBoundaryCalls ==
    Train =>
       LET e == total_step \div cfg.n_steps_per_epoch
           boundary == total_step % cfg.n_steps_per_epoch = 0 /\ e > 0
       IN  /\ (\E op \in EpochCallNames : Called(op)) =>
                  (StepEnded /\ boundary)
           /\ (StepEnded /\ boundary) =>
                 /\ TimesCalled("eval_scorer") =
                       (IF cfg.eval_env THEN 1 ELSE 0)
                 /\ TimesCalled("logger.save_model") =
                       (IF e % cfg.save_interval = 0 THEN 1 ELSE 0)
                 /\ TimesCalled("logger.commit") = 1
                 /\ \A i \in LogIndex("logger.commit") :
                       log[i].args = <<e, total_step>>

C6_Witness ==
    /\ Train /\ StepEnded /\ total_step = 2
    /\ cfg.n_steps_per_epoch = 1 /\ cfg.save_interval = 2 /\ cfg.eval_env
    /\ Called("eval_scorer")
    /\ Called("logger.save_model")
    /\ Called("logger.commit")
    /\ calls.commit = 2

\* what a collaborator (environment, explorer, algorithm) can raise
CollaboratorErrors ==
    {"env.reset", "env.step", "explorer.sample", "algo.sample_action",
     "algo.predict", "algo.update"}

\* C7: when no collaborator raises, train_single_env makes exactly n_steps
\* environment steps, then buffer.clip_episode() once and logger.close()
\* once; collect makes exactly n_steps environment steps and then
\* buffer.clip_episode() once.
C7_RunsAllStepsThenShutsDown ==
    /\ (pc = "raised") => error \in CollaboratorErrors
    /\ (pc = "done") =>
          /\ calls.env_step = cfg.n_steps
          /\ calls.append = cfg.n_steps
          /\ calls.clip_episode = 1
          /\ calls.close = (IF Train THEN 1 ELSE 0)
          /\ log[1].op = "buffer.clip_episode"
          /\ Train => (Len(log) = 2 /\ log[2].op = "logger.close")
    /\ (pc # "done") => (calls.clip_episode = 0 /\ calls.close = 0)

\* C8: if env.step, env.reset, sample_action or update raises during
\* train_single_env, then before the exception leaves the function
\* buffer.clip_episode() and logger.close() have been called.
C8_CleanupOnRaise ==
    ( Train /\ pc = "raised" /\ total_step >= 1
      /\ error \in {"env.step", "env.reset", "algo.sample_action",
                    "algo.update"} ) =>
       (calls.clip_episode = 1 /\ calls.close = 1)

C10_CallbackAtEpochEndOnly ==
    /\ (Train /\ Called("callback")) =>
          total_step % cfg.n_steps_per_epoch = 0
    /\ (Train /\ pc = "done" /\ cfg.callback) =>
          calls.callback = cfg.n_steps \div cfg.n_steps_per_epoch

\* ------------------------------------------- calls on the same algorithm
\* arguments of a call in a sequence of calls; the environment is scripted
CallConfigs ==
    [ mode : {"train", "collect"},
      n_steps : {2},
      n_steps_per_epoch : {1},
      update_interval : {1},
      update_start_step : {0, 2},
      random_steps : {0},
      explorer : BOOLEAN,
      eval_env : {FALSE},
      save_interval : {1},
      timelimit_aware : {TRUE},
      callback : {FALSE},
      load_demo : {<<>>},
      bc_loss : BOOLEAN,
      batch_size : {0},
      deterministic : BOOLEAN,
      is_image : BOOLEAN,
      rewards : {{0}},
      env : {"script"} ]

\* the arguments train_single_env and collect can be given
CallArgs ==
    { c \in CallConfigs :
        /\ c.mode = "train" => ~c.deterministic
        /\ c.mode = "collect" => (~c.bc_loss /\ c.update_start_step = 0) }

InitCalls ==
    /\ cfg \in CallArgs
    /\ Locals
    /\ buffer = <<>>
    /\ algo \in AlgoStates
    /\ ncalls = 1
    /\ hist = [on |-> TRUE, cur |-> <<>>, prev |-> <<>>, prev_cfg |-> None,
               prev_error |-> None]
    /\ fqe = NoFqe

\* the caller, once a call has returned or raised, calls train_single_env
\* or collect again with the same algorithm and a new buffer
NewCall ==
    /\ pc \in {"done", "raised"}
    /\ ncalls < MaxCalls
    /\ ncalls' = ncalls + 1
    /\ cfg' \in CallArgs
    /\ hist' = [on |-> hist.on, cur |-> <<>>, prev |-> hist.cur,
                prev_cfg |-> cfg, prev_error |-> error]
    /\ pc' = "setup"
    /\ total_step' = 0
    /\ epoch' = -1
    /\ buffer' = <<>>
    /\ demo_buffer' = [bound |-> FALSE, items |-> <<>>]
    /\ action' = 0
    /\ unscaled_action' = 0
    /\ env_ret' = [terminal |-> FALSE, info |-> {}]
    /\ clip_episode' = FALSE
    /\ log' = <<>>
    /\ calls' = NoCalls
    /\ error' = None
    /\ observation' = [ep |-> 0, k |-> 0]
    /\ stacked_frame' = [bound |-> FALSE, frames |-> <<>>]
    /\ rollout_return' = 0
    /\ reward' = 0
    /\ values' = [action |-> 0, unscaled_action |-> 0]
    /\ UNCHANGED <<algo, fqe>>

NextCalls ==
    \/ Next
    \/ NewCall

SpecCalls == InitCalls /\ [][NextCalls]_vars

\* C11: across any sequence of train_single_env and collect calls on the
\* same algorithm, _setup_algo calls build_with_env only while algo.impl
\* is unset: at most once in total, and never on an algorithm that is
\* already built.
C11_BuildOnlyWhileUnset ==
    /\ [](algo.builds <= 1)
    /\ [][algo.impl => algo'.builds = algo.builds]_vars
    /\ [][(~algo.impl /\ pc = "setup" /\ pc' = "reset")
            => (algo'.impl /\ algo'.builds = algo.builds + 1
                /\ Ev("algo.build_with_env", <<>>) \in
                       {log'[i] : i \in 1..Len(log')})]_vars

\* a second call has set up an algorithm that the first call built
C11_Witness ==
    /\ ncalls = 2
    /\ pc = "reset"
    /\ algo.builds = 1
    /\ Ev("LOG.warning", <<>>) \in {log[i] : i \in 1..Len(log)}

\* C12: _setup_algo fits the scaler and the action scaler only when they
\* are not yet fit: a setup on an algorithm whose scaler (action scaler) was
\* fit already does not call fit_with_env on it again.
C12_FitOnlyOnce ==
    [][ /\ (algo.scaler_fit => algo'.scaler_fits = algo.scaler_fits)
        /\ (algo.action_scaler_fit
              => algo'.action_scaler_fits = algo.action_scaler_fits) ]_vars

\* --------------------------------------------------- demonstration files
\* train_single_env with every demonstration file of the bounded shape
DemoConfigs ==
    [ mode : {"train"},
      n_steps : {2},
      n_steps_per_epoch : {1},
      update_interval : {1},
      update_start_step : {0},
      random_steps : {2},
      explorer : {FALSE},
      eval_env : {FALSE},
      save_interval : {1},
      timelimit_aware : {TRUE},
      callback : {FALSE},
      load_demo : {<<>>} \cup AllDemoFiles,
      bc_loss : BOOLEAN,
      batch_size : {0},
      deterministic : {FALSE},
      is_image : {FALSE},
      rewards : {{0}},
      env : {"any"} ]

InitDemo == InitWith(DemoConfigs)

SpecDemo == InitDemo /\ [][NextScenarioA]_vars

RECURSIVE FlatDone(_)
\* the done flags of a demonstration file, in file order
FlatDone(demos) ==
    IF demos = <<>> THEN <<>> ELSE demos[1] \o FlatDone(Tail(demos))

\* the last n elements of s (all of s if it has fewer)
LastN(s, n) ==
    IF Len(s) <= n THEN s ELSE SubSeq(s, Len(s) - n + 1, Len(s))

\* the calls of s on operation op, in order
CallsOn(s, op) == SelectSeq(s, LAMBDA e : e.op = op)

\* C13: a demonstration file of T transitions is appended whole, in file
\* order and before the first environment step, to exactly one buffer: with
\* bc_loss to a separate demo buffer (length T afterwards, primary buffer
\* untouched), without it to the primary buffer (no demo buffer exists);
\* each appended transition has terminal and clip_episode both equal to the
\* demonstration's done flag, and no demonstration is appended later.
C13_DemosToOneBuffer ==
    (Train /\ pc # "setup" /\ cfg.load_demo # <<>>) =>
        LET done == FlatDone(cfg.load_demo)
            T == Len(done)
            trs == [i \in 1..T |->
                       [terminal |-> done[i], clip_episode |-> done[i]]]
            appends(op) == [i \in 1..T |-> Ev(op, <<done[i], done[i]>>)]
            loaded == calls.env_reset = 0
        IN  /\ cfg.bc_loss =>
                 /\ demo_buffer.bound
                 /\ demo_buffer.items = trs
                 /\ CallsOn(log, "demo_buffer.append") =
                        (IF loaded THEN appends("demo_buffer.append")
                         ELSE <<>>)
                 /\ loaded =>
                        (buffer = <<>> /\ CallsOn(log, "buffer.append") = <<>>)
            /\ ~cfg.bc_loss =>
                 /\ ~demo_buffer.bound
                 /\ demo_buffer.items = <<>>
                 /\ CallsOn(log, "demo_buffer.append") = <<>>
                 /\ loaded =>
                        /\ CallsOn(log, "buffer.append") =
                               appends("buffer.append")
                        /\ buffer = LastN(trs, BufCap)
            /\ loaded => calls.env_step = 0

\* a file of MaxDemoEpisodes full episodes, the first one ending with
\* done, has been loaded into the demo buffer
C13_Witness ==
    /\ Train
    /\ pc = "reset"
    /\ cfg.bc_loss
    /\ Len(cfg.load_demo) = MaxDemoEpisodes
    /\ Len(demo_buffer.items) = MaxDemoEpisodes * MaxDemoLen
    /\ demo_buffer.items[MaxDemoLen].clip_episode
    /\ ~demo_buffer.items[1].terminal
    /\ Len(CallsOn(log, "demo_buffer.append")) = Len(demo_buffer.items)

\* C14: every algo.update call of train_single_env gets a demo_batch that
\* is not None, made by the demo buffer from its own sample, exactly when
\* bc_loss is set, and None otherwise; with bc_loss the batch passed along
\* is made from the primary sample followed by that same demo sample.
C14_DemoBatchIffBc ==
    (Train /\ Called("algo.update")) =>
        LET u == CHOOSE i \in LogIndex("algo.update") : TRUE
        IN  /\ TimesCalled("algo.update") = 1
            /\ IF cfg.bc_loss
               THEN /\ log[u].args = <<"demo_batch">>
                    /\ demo_buffer.bound
                    /\ u > 4
                    /\ SubSeq(log, u - 4, u - 1) =
                         <<Ev("buffer.sample_trainsitions", <<>>),
                           Ev("demo_buffer.sample_trainsitions", <<>>),
                           Ev("buffer.to_minibatch", <<"buffer_t", "demo_t">>),
                           Ev("demo_buffer.to_minibatch", <<"demo_t">>)>>
                    /\ ~Called("buffer.sample")
               ELSE /\ log[u].args = <<None>>
                    /\ u > 1
                    /\ log[u - 1] = Ev("buffer.sample", <<>>)
                    /\ ~Called("demo_buffer.sample_trainsitions")
                    /\ ~Called("demo_buffer.to_minibatch")
                    /\ ~Called("buffer.to_minibatch")

\* an update with bc_loss on a loaded demo buffer has been made
C14_Witness ==
    /\ Train
    /\ cfg.bc_loss
    /\ pc = "callback"
    /\ Called("algo.update")
    /\ Len(demo_buffer.items) = MaxDemoLen

\* C15: collect and train_single_env, run one after the other against the
\* same deterministic environment, policy and explorer with random_steps =
\* 0, equal timelimit_aware, deterministic = false and no update firing,
\* pass the same actions to env.step, append the same transitions and make
\* the same env.reset and stacked_frame.clear calls, in the same order.
C15_CollectAsTrain ==
    ( /\ ncalls = 2
      /\ pc = "done"
      /\ cfg.mode = "collect"
      /\ ~cfg.deterministic
      /\ hist.prev_error \notin CollaboratorErrors
      /\ hist.prev_cfg.mode = "train"
      /\ hist.prev_cfg.random_steps = 0
      /\ hist.prev_cfg.update_start_step >= hist.prev_cfg.n_steps
      /\ hist.prev_cfg.n_steps = cfg.n_steps
      /\ hist.prev_cfg.explorer = cfg.explorer
      /\ hist.prev_cfg.is_image = cfg.is_image
      /\ hist.prev_cfg.timelimit_aware = cfg.timelimit_aware )
    => hist.cur = hist.prev

\* ------------------------------------------------------------ _FQEBase
FqeOps == {"save_policy", "predict", "sample_action", "inner_update"}

\* FqeFailure with the assertion on self._impl left out
FqeFailureNoImplCheck(f, op) ==
    IF ~f.algo THEN "ALGO_NOT_GIVEN_ERROR"
    ELSE IF op = "inner_update" /\ ~f.numpy_batch THEN "AssertionError"
    ELSE None

\* fqe.py lines 101, 105, 109, 113-115: the assertion that stops method op
\* on object f, None if all of them pass
FqeFailure(f, op) ==
    IF ~f.algo THEN "ALGO_NOT_GIVEN_ERROR"
    ELSE IF op = "inner_update" /\ ~f.impl THEN "IMPL_NOT_INITIALIZED_ERROR"
    ELSE IF op = "inner_update" /\ ~f.numpy_batch THEN "AssertionError"
    ELSE None

\* fqe.py lines 102, 106, 110, 116-121: the calls method op makes on the
\* wrapped algorithm and on the implementation once its assertions passed
FqeCalls(f, op) ==
    IF op = "inner_update"
    THEN <<"algo.predict", "impl.update">> \o
         ( IF f.grad_step % f.target_update_interval = 0
           THEN <<"impl.update_target">> ELSE <<>> )
    ELSE <<"algo." \o op>>

\* fqe.py lines 100-122: one call of save_policy, predict, sample_action or
\* inner_update
FqeCall ==
    /\ pc = "fqe"
    /\ \E op \in FqeOps :
          fqe' = [fqe EXCEPT
                    !.op = op,
                    !.made = IF FqeFailure(fqe, op) = None
                             THEN FqeCalls(fqe, op) ELSE <<>>,
                    !.result = IF FqeFailure(fqe, op) = None
                               THEN "returned" ELSE FqeFailure(fqe, op)]
    /\ UNCHANGED loopVars

\* fqe.py lines 156-177: inner_create_impl sets self._impl
InnerCreateImpl ==
    /\ pc = "fqe"
    /\ ~fqe.impl
    /\ fqe' = [fqe EXCEPT !.impl = TRUE, !.op = "inner_create_impl",
                          !.made = <<>>, !.result = "returned"]
    /\ UNCHANGED loopVars

InitFQE ==
    /\ cfg = None
    /\ pc = "fqe"
    /\ total_step = 0
    /\ epoch = -1
    /\ buffer = <<>>
    /\ demo_buffer = [bound |-> FALSE, items |-> <<>>]
    /\ action = 0
    /\ unscaled_action = 0
    /\ env_ret = [terminal |-> FALSE, info |-> {}]
    /\ clip_episode = FALSE
    /\ log = <<>>
    /\ calls = NoCalls
    /\ error = None
    /\ observation = [ep |-> 0, k |-> 0]
    /\ stacked_frame = [bound |-> FALSE, frames |-> <<>>]
    /\ rollout_return = 0
    /\ reward = 0
    /\ values = [action |-> 0, unscaled_action |-> 0]
    /\ algo = FreshAlgo
    /\ ncalls = 0
    /\ hist = [on |-> FALSE, cur |-> <<>>, prev |-> <<>>, prev_cfg |-> None,
               prev_error |-> None]
    /\ fqe \in FqeStates

NextFQE ==
    \/ FqeCall
    \/ InnerCreateImpl

SpecFQE == InitFQE /\ [][NextFQE]_vars

\* C16: save_policy, predict, sample_action and inner_update fail with
\* ALGO_NOT_GIVEN_ERROR when no algorithm was given, inner_update fails with
\* IMPL_NOT_INITIALIZED_ERROR when the implementation is not built, and a
\* call that fails so has made no call on the wrapped algorithm or on the
\* implementation.
C16_FqePreconditions ==
    [][ \A op \in FqeOps : fqe'.op = op =>
          /\ ~fqe.algo =>
                (fqe'.result = "ALGO_NOT_GIVEN_ERROR" /\ fqe'.made = <<>>)
          /\ (op = "inner_update" /\ fqe.algo /\ ~fqe.impl) =>
                (fqe'.result = "IMPL_NOT_INITIALIZED_ERROR"
                 /\ fqe'.made = <<>>)
          /\ fqe'.result \in {"ALGO_NOT_GIVEN_ERROR",
                              "IMPL_NOT_INITIALIZED_ERROR"}
                => fqe'.made = <<>> ]_vars

\* inner_update has been refused on an object whose implementation is not
\* built
C16_Witness ==
    /\ fqe.op = "inner_update"
    /\ fqe.algo
    /\ ~fqe.impl
    /\ fqe.result = "IMPL_NOT_INITIALIZED_ERROR"
    /\ fqe.made = <<>>

\* the step total_step has made its call of buffer.append
Appended == total_step >= 1 /\ pc \in {"boundary", "update", "callback"}

\* C17 as stated: in train_single_env and collect every step calls append on
\* the primary buffer exactly once and each such call makes the buffer one
\* transition longer, whatever the length of the run and the capacity of
\* the buffer; the final buffer.clip_episode() leaves the length unchanged.
C17_LengthGrowsByOne ==
    /\ []((Appended \/ StepEnded) =>
            (TimesCalled("buffer.append") = 1 /\ calls.append = total_step))
    /\ [][calls'.append = calls.append + 1
            => Len(buffer') = Len(buffer) + 1]_vars
    /\ [][calls'.clip_episode = calls.clip_episode + 1
            => Len(buffer') = Len(buffer)]_vars

\* C17, amended: every step calls append on the primary buffer exactly
\* once; the call makes the buffer one transition longer while it is below
\* its capacity and leaves its length at the capacity once it is full; the
\* final buffer.clip_episode() leaves the length unchanged.
C17_LengthGrowsToCapacity ==
    /\ []((Appended \/ StepEnded) =>
            (TimesCalled("buffer.append") = 1 /\ calls.append = total_step))
    /\ [](Len(buffer) <= BufCap)
    /\ [][calls'.append = calls.append + 1
            => Len(buffer') = (IF Len(buffer) < BufCap
                               THEN Len(buffer) + 1 ELSE BufCap)]_vars
    /\ [][calls'.clip_episode = calls.clip_episode + 1
            => Len(buffer') = Len(buffer)]_vars

\* a step has appended to a buffer that its own earlier appends had filled
C17_Witness ==
    /\ Appended
    /\ cfg.load_demo = <<>>
    /\ calls.append = BufCap + 1
    /\ Len(buffer) = BufCap

\* ------------------------------------- image observations and rewards
\* both loops on image and vector observations, with rewards 0 and 1
LoopConfigs ==
    [ mode : {"train", "collect"},
      n_steps : 1..MaxSteps,
      n_steps_per_epoch : {1},
      update_interval : {1},
      update_start_step : {0},
      random_steps : {0},
      explorer : BOOLEAN,
      eval_env : {FALSE},
      save_interval : {1},
      timelimit_aware : {TRUE},
      callback : {FALSE},
      load_demo : {<<>>},
      bc_loss : BOOLEAN,
      batch_size : {0},
      deterministic : {FALSE},
      is_image : BOOLEAN,
      rewards : {{0, 1}},
      env : {"any"} ]

LoopArgs == { c \in LoopConfigs : c.mode = "collect" => ~c.bc_loss }

InitLoop ==
    /\ cfg \in LoopArgs
    /\ Locals
    /\ buffer = <<>>
    /\ algo = FreshAlgo
    /\ ncalls = 1
    /\ hist = [on |-> TRUE, cur |-> <<>>, prev |-> <<>>, prev_cfg |-> None,
               prev_error |-> None]
    /\ fqe = NoFqe

SpecLoop == InitLoop /\ [][Next]_vars

\* the smaller of two numbers
Min(a, b) == IF a < b THEN a ELSE b

\* the frames a window of n frames holds once the observation obs of an
\* episode has been appended to a window that was empty when the episode
\* began
EpisodeWindow(obs, n) ==
    [i \in 1..Min(obs.k + 1, n) |->
        [ep |-> obs.ep, k |-> obs.k - Min(obs.k + 1, n) + i]]

\* C18: with image observations, in train_single_env and in collect, the
\* frame stacker is cleared exactly once at a step whose clip_episode is
\* true, after that step's buffer.append and before the next step's
\* stacked_frame.append, and never at another step; so after k appends that
\* follow an episode boundary the window holds the min(k, n_frames) latest
\* frames of the new episode and nothing older.
C18_StackerClearedAtBoundary ==
    /\ (StepEnded /\ cfg.is_image) =>
          /\ TimesCalled("stacked_frame.clear") =
                 (IF clip_episode THEN 1 ELSE 0)
          /\ clip_episode =>
                /\ stacked_frame.frames = <<>>
                /\ \A i \in LogIndex("stacked_frame.clear") :
                     \A j \in LogIndex("buffer.append") : j < i
    /\ (pc = "env_step" /\ cfg.is_image) =>
          stacked_frame.frames = EpisodeWindow(observation, NFrames)
    /\ ~cfg.is_image =>
          (~Called("stacked_frame.clear") /\ stacked_frame.frames = <<>>)

\* the first frame of a second episode has been appended: the window holds
\* that frame alone
C18_Witness ==
    /\ cfg.is_image
    /\ cfg.mode = "collect"
    /\ pc = "env_step"
    /\ observation = [ep |-> 2, k |-> 0]
    /\ stacked_frame.frames = <<[ep |-> 2, k |-> 0]>>

RECURSIVE SumRewards(_)
\* the sum of the rewards of the transitions appended in s
SumRewards(s) ==
    IF s = <<>> THEN 0
    ELSE (IF s[1].op = "buffer.append" THEN s[1].args[3] ELSE 0)
         + SumRewards(Tail(s))

\* the positions of the env.reset calls in s
ResetsIn(s) == { i \in 1..Len(s) : s[i].op = "env.reset" }

\* the largest element of a non-empty set of numbers
Max(S) == CHOOSE x \in S : \A y \in S : y <= x

\* the events of the episode that the last env.reset of s ended
EndedEpisode(s) ==
    LET last == Max(ResetsIn(s))
        prev == Max(ResetsIn(s) \ {last})
    IN  SubSeq(s, prev + 1, last - 1)

\* the events of s since its last env.reset
OpenEpisode(s) == SubSeq(s, Max(ResetsIn(s)) + 1, Len(s))

\* the step total_step of train_single_env is past its episode-boundary
\* block
PastBoundary ==
    Train /\ total_step >= 1 /\ pc \in {"update", "callback", "select", "finish"}

\* C19: in train_single_env, at a step whose clip_episode is true the value
\* logged as rollout_return is the sum of the rewards of the steps after
\* the previous episode boundary (or the start of the run) up to and
\* including that step, and the accumulator is 0 from then to the start of
\* the next step; at a step whose clip_episode is false nothing is logged
\* as rollout_return and the accumulator keeps the sum.
C19_RolloutReturn ==
    PastBoundary =>
        LET logged == { i \in LogIndex("add_metric") :
                           log[i].args[1] = "rollout_return" }
        IN  IF clip_episode
            THEN /\ Cardinality(logged) = 1
                 /\ \A i \in logged :
                       log[i].args[2] = SumRewards(EndedEpisode(hist.cur))
                 /\ rollout_return = 0
            ELSE /\ logged = {}
                 /\ rollout_return = SumRewards(OpenEpisode(hist.cur))

\* the third step ends a second episode: its return 2 is logged, the
\* reward 1 of the first episode is not part of it
C19_Witness ==
    /\ PastBoundary
    /\ clip_episode
    /\ total_step = 3
    /\ calls.env_reset = 3
    /\ SumRewards(hist.cur) = 3
    /\ Ev("add_metric", <<"rollout_return", 2>>) \in
           {log[i] : i \in 1..Len(log)}

\* C20: at every step of train_single_env, whichever of the three selectors
\* chose the action, env.step is called with the native-range counterpart
\* of the action selected at that step, which is the action stored in the
\* buffer for the step; env.step is never called with an action assigned at
\* an earlier step, and never reached with no action assigned.
C20_StepsWithSelectedAction ==
    Train =>
        /\ pc = "boundary" =>
              /\ action = total_step
              /\ unscaled_action = total_step
              /\ values.unscaled_action =
                     unscale_action(ActionSpace, values.action)
        /\ ~(pc = "raised" /\ error = "UnboundLocalError"
             /\ unscaled_action = 0)

\* C21: in train_single_env with bc_loss, every step at which the update
\* fires finds a demo_buffer created during setup: whatever the options,
\* the demonstration sampling of the update is never reached with
\* demo_buffer undefined.
C21_DemoBufferDefined ==
    Train =>
        /\ (cfg.bc_loss /\ pc = "update" /\ Gate) => demo_buffer.bound
        /\ ~(pc = "raised" /\ error = "UnboundLocalError"
             /\ Called("buffer.sample_trainsitions"))

\* C22: in train_single_env every logger.add_metric call (rollout_return,
\* losses, evaluation) is followed by a logger.commit before
\* logger.close(): whatever n_steps and n_steps_per_epoch, no add_metric
\* call is without a later commit when the logger is closed.
C22_NoMetricUncommittedAtClose ==
    (Train /\ calls.close = 1) => calls.uncommitted = 0

====
